---- MODULE Spec2Model ----
(***************************************************************************)
(* A model of asarlib's AsarFile (src/asarlib/asarlib.py): the handle's    *)
(* state (_fh, _content_offset, headers), the byte sources it acquires,    *)
(* and its operations open, close, seek, tell, read, get_header, listdir,  *)
(* read_file, treestr, walk, walk_files, extract_file and extract.         *)
(*                                                                         *)
(* Bytes are integers 0..255 and a file is a sequence of bytes.  Text is   *)
(* a sequence of code points; the archives below are ASCII apart from one  *)
(* 0xFF byte, so utf-8 decoding maps a byte below 128 to the same code     *)
(* point and fails on anything else.  A decoded header is a Python value:  *)
(* a dict (an insertion-ordered list of key/value items) or an int.        *)
(***************************************************************************)
EXTENDS Integers, Sequences, FiniteSets, TLC

(***************************************************************************)
(* Bounds of the model.                                                    *)
(***************************************************************************)
\* How many byte sources one handle acquires in a run.
MaxOpens == 2
\* How many entries the list `keys` of get_header may hold before the
\* model stops following the split loop.
MaxKeys == 5

(***************************************************************************)
(* Characters and byte strings.                                            *)
(***************************************************************************)
Ord(c) ==
    CASE c = "{" -> 123 [] c = "}" -> 125 [] c = "\"" -> 34 [] c = ":" -> 58
      [] c = "," -> 44  [] c = "/" -> 47  [] c = "." -> 46  [] c = " " -> 32
      [] c = "\n" -> 10
      [] c = "0" -> 48  [] c = "1" -> 49  [] c = "2" -> 50  [] c = "3" -> 51
      [] c = "4" -> 52  [] c = "5" -> 53  [] c = "6" -> 54  [] c = "7" -> 55
      [] c = "8" -> 56  [] c = "9" -> 57
      [] c = "A" -> 65  [] c = "F" -> 70
      [] c = "a" -> 97  [] c = "b" -> 98  [] c = "c" -> 99
      [] c = "d" -> 100 [] c = "e" -> 101
      [] c = "f" -> 102 [] c = "g" -> 103 [] c = "h" -> 104 [] c = "i" -> 105
      [] c = "l" -> 108 [] c = "m" -> 109 [] c = "n" -> 110 [] c = "o" -> 111
      [] c = "p" -> 112 [] c = "q" -> 113
      [] c = "r" -> 114 [] c = "s" -> 115 [] c = "t" -> 116 [] c = "u" -> 117
      [] c = "x" -> 120
      [] c = "y" -> 121 [] c = "z" -> 122
      [] c = "vline" -> 9474 [] c = "hline" -> 9500 [] c = "dash" -> 9472

\* The code points of a text given character by character.
Enc(s) == [i \in 1..Len(s) |-> Ord(s[i])]

Min(a, b) == IF a < b THEN a ELSE b
Max(a, b) == IF a > b THEN a ELSE b

\* n copies of the sequence s (Python's s * n; empty for n <= 0).
RECURSIVE Rep(_, _)
Rep(s, n) == IF n <= 0 THEN <<>> ELSE s \o Rep(s, n - 1)

\* s[i:] and s[:i] for 0 <= i.
From(s, i) == SubSeq(s, i + 1, Len(s))
Upto(s, i) == SubSeq(s, 1, Min(i, Len(s)))

SLASH == Ord("/")
\* The padding byte open() strips from the end of the header payload.
NUL == 0
KEY_FILES == Enc(<<"f", "i", "l", "e", "s">>)
KEY_OFFSET == Enc(<<"o", "f", "f", "s", "e", "t">>)
KEY_SIZE == Enc(<<"s", "i", "z", "e">>)
CLASS_NAME == Enc(<<"A", "s", "a", "r", "F", "i", "l", "e">>)

(***************************************************************************)
(* Python values.  Every value is a record with a tag t, so that two       *)
(* values of different kinds compare unequal.                              *)
(***************************************************************************)
PyNone == [t |-> "None"]
PyInt(n) == [t |-> "int", n |-> n]
PyBytes(b) == [t |-> "bytes", b |-> b]
PyStr(s) == [t |-> "str", s |-> s]
PyList(l) == [t |-> "list", l |-> l]
\* A dict: items is the sequence of [k, v] in insertion order, keys unique.
PyDict(items) == [t |-> "dict", items |-> items]
EmptyDict == PyDict(<<>>)

IsDict(v) == v.t = "dict"
DictHas(d, k) == \E i \in 1..Len(d.items) : d.items[i].k = k
DictGet(d, k) == d.items[CHOOSE i \in 1..Len(d.items) : d.items[i].k = k].v
DictKeys(d) == [i \in 1..Len(d.items) |-> d.items[i].k]
\* d[k] = v: a new key goes last, an existing key keeps its place.
DictSet(d, k, v) ==
    IF DictHas(d, k)
    THEN PyDict([i \in 1..Len(d.items) |->
                    IF d.items[i].k = k THEN [k |-> k, v |-> v] ELSE d.items[i]])
    ELSE PyDict(Append(d.items, [k |-> k, v |-> v]))

\* A local variable: v is computed once and Body works on the value.
With(v, Body(_)) == CHOOSE r \in {Body(x) : x \in {v}} : TRUE

\* The outcome of an expression or a call: a value, or the exception raised.
Ok(v) == [status |-> "ok", value |-> v]
Raise(e) == [status |-> e, value |-> PyNone]
IsOk(r) == r.status = "ok"

(***************************************************************************)
(* json.loads and bytes.decode, as far as the archives of this model need  *)
(* them: objects with string keys (no escapes), non-negative integers, no  *)
(* white space.  Every other text the archives can produce (a cut-off      *)
(* document, an empty one, trailing data) is not JSON at all and fails.    *)
(***************************************************************************)
At(s, i) == IF i \in 1..Len(s) THEN s[i] ELSE -1
IsDigit(c) == c >= Ord("0") /\ c <= Ord("9")

RECURSIVE ScanDigits(_, _)
\* The index after the run of digits that starts at i.
ScanDigits(s, i) == IF IsDigit(At(s, i)) THEN ScanDigits(s, i + 1) ELSE i

RECURSIVE DecVal(_)
DecVal(ds) ==
    IF ds = <<>> THEN 0
    ELSE 10 * DecVal(SubSeq(ds, 1, Len(ds) - 1)) + (ds[Len(ds)] - Ord("0"))

\* A parse step: whether it succeeded, the value, the index after it.
ParseFail == [ok |-> FALSE, v |-> PyNone, i |-> 0]
ParseOk(v, i) == [ok |-> TRUE, v |-> v, i |-> i]

\* A string starting at s[i]: the text up to the next quote.
ParseString(s, i) ==
    IF At(s, i) # Ord("\"") THEN ParseFail
    ELSE LET ends == {j \in (i + 1)..Len(s) : s[j] = Ord("\"")}
         IN  IF ends = {} THEN ParseFail
             ELSE LET j == CHOOSE e \in ends : \A f \in ends : e <= f
                  IN  ParseOk(PyStr(SubSeq(s, i + 1, j - 1)), j + 1)

RECURSIVE ParseValue(_, _), ParseMembers(_, _, _)
ParseValue(s, i) ==
    IF At(s, i) = Ord("{")
    THEN IF At(s, i + 1) = Ord("}") THEN ParseOk(EmptyDict, i + 2)
         ELSE ParseMembers(s, i + 1, EmptyDict)
    ELSE IF At(s, i) = Ord("0") THEN ParseOk(PyInt(0), i + 1)
    ELSE IF IsDigit(At(s, i))
    THEN LET j == ScanDigits(s, i)
         IN  ParseOk(PyInt(DecVal(SubSeq(s, i, j - 1))), j)
    ELSE ParseFail

\* The members of an object from s[i] on, added to acc in order; a repeated
\* key overwrites the earlier value.
ParseMembers(s, i, acc) ==
    With(ParseString(s, i),
         LAMBDA k :
           IF ~k.ok \/ At(s, k.i) # Ord(":") THEN ParseFail
           ELSE With(ParseValue(s, k.i + 1),
                     LAMBDA v :
                       IF ~v.ok THEN ParseFail
                       ELSE With(DictSet(acc, k.v.s, v.v),
                                 LAMBDA d :
                                   IF At(s, v.i) = Ord(",") THEN ParseMembers(s, v.i + 1, d)
                                   ELSE IF At(s, v.i) = Ord("}") THEN ParseOk(d, v.i + 1)
                                   ELSE ParseFail)))

\* json.loads(text): the value, or JSONDecodeError (also on trailing data).
json_loads(s) ==
    LET r == ParseValue(s, 1)
    IN  IF r.ok /\ r.i = Len(s) + 1 THEN Ok(r.v) ELSE Raise("JSONDecodeError")

\* bytes.decode("utf-8") on ASCII-or-0xFF input.
decode(b) ==
    IF \E i \in 1..Len(b) : b[i] >= 128 THEN Raise("UnicodeDecodeError")
    ELSE Ok(PyStr(b))

\* bytes.rstrip(b"\x00")
RECURSIVE rstrip_nul(_)
rstrip_nul(b) ==
    IF b # <<>> /\ b[Len(b)] = NUL THEN rstrip_nul(SubSeq(b, 1, Len(b) - 1)) ELSE b

(***************************************************************************)
(* The file object behind _fh: a buffered binary reader over the file's    *)
(* bytes with one cursor.                                                  *)
(***************************************************************************)
\* fh.read(n) at cursor p: n = -1 or None reads to the end, n < -1 is refused.
file_read(data, p, n) ==
    IF n < -1 THEN Raise("ValueError")
    ELSE IF n = -1 THEN Ok(PyBytes(From(data, Min(p, Len(data)))))
    ELSE Ok(PyBytes(SubSeq(data, p + 1, Min(p + n, Len(data)))))

\* fh.seek(p): a negative position is refused, one past the end is not.
file_seek(p) == IF p < 0 THEN Raise("OSError") ELSE Ok(PyInt(p))

(***************************************************************************)
(* The framing constants of AsarFile.open.                                 *)
(***************************************************************************)
\* struct.unpack("II", ...) takes exactly this many bytes.
PREFIX_LEN == 8
\* assert len_size == 4
LEN_SIZE == 4
\* header_start = 12 + len_size
HEADER_BASE == 12
\* len_header -= 8
PADDING == 8

\* One native (little-endian) unsigned 32-bit integer.
unpack_I(b) == b[1] + 256 * b[2] + 65536 * b[3] + 16777216 * b[4]
pack_I(n) == <<n % 256, (n \div 256) % 256, (n \div 65536) % 256, (n \div 16777216) % 256>>

\* struct.unpack("II", b)
unpack_II(b) ==
    IF Len(b) # PREFIX_LEN THEN Raise("struct.error")
    ELSE Ok(PyList(<<unpack_I(SubSeq(b, 1, 4)), unpack_I(SubSeq(b, 5, 8))>>))

\* What open() computes from a freshly opened file (lines 113..131): the
\* exception or success, the headers and content offset it would store, and
\* where it leaves the cursor.
read_header(data) ==
    LET prefix == file_read(data, 0, PREFIX_LEN).value.b
        u == unpack_II(prefix)
        len_size == u.value.l[1]
        len_header == u.value.l[2] - PADDING
        header_start == HEADER_BASE + len_size
        rd == file_read(data, header_start, len_header)
        header_data == rstrip_nul(rd.value.b)
        text == decode(header_data)
        doc == json_loads(text.value.s)
        fail(e, p) == [status |-> e, headers |-> PyNone, content_offset |-> 0, pos |-> p]
    IN  IF ~IsOk(u) THEN fail(u.status, Len(prefix))
        ELSE IF len_size # LEN_SIZE THEN fail("AssertionError", Len(prefix))
        ELSE IF ~IsOk(rd) THEN fail(rd.status, header_start)
        ELSE IF ~IsOk(text) THEN fail(text.status, header_start + Len(rd.value.b))
        ELSE IF ~IsOk(doc) THEN fail(doc.status, header_start + Len(rd.value.b))
        ELSE [status |-> "ok", headers |-> doc.value,
              content_offset |-> header_start + len_header,
              pos |-> header_start + Len(rd.value.b)]

(***************************************************************************)
(* The archives on disk.  json_dumps writes a header the way an archive    *)
(* writer does; it is how the files below are built, not part of AsarFile. *)
(***************************************************************************)
RECURSIVE dec_text(_)
dec_text(n) ==
    IF n < 10 THEN <<Ord("0") + n>> ELSE Append(dec_text(n \div 10), Ord("0") + (n % 10))

RECURSIVE json_dumps(_), json_dumps_items(_, _)
json_dumps(v) ==
    IF v.t = "int" THEN dec_text(v.n)
    ELSE <<Ord("{")>> \o json_dumps_items(v.items, 1) \o <<Ord("}")>>

json_dumps_items(items, i) ==
    IF i > Len(items) THEN <<>>
    ELSE (IF i > 1 THEN <<Ord(",")>> ELSE <<>>)
         \o <<Ord("\"")>> \o items[i].k \o <<Ord("\""), Ord(":")>>
         \o json_dumps(items[i].v) \o json_dumps_items(items, i + 1)

Item(name, v) == [k |-> Enc(name), v |-> v]
FileEntry(offset, size) ==
    PyDict(<<Item(<<"o", "f", "f", "s", "e", "t">>, PyInt(offset)),
             Item(<<"s", "i", "z", "e">>, PyInt(size))>>)
Directory(children) == PyDict(<<Item(<<"f", "i", "l", "e", "s">>, PyDict(children))>>)

\* a (2 bytes at 0), d/b (1 byte at 2), g (3 bytes at 2: one more than the
\* content holds), m (no offset).
Tree1 ==
    Directory(<<Item(<<"a">>, FileEntry(0, 2)),
                Item(<<"d">>, Directory(<<Item(<<"b">>, FileEntry(2, 1))>>)),
                Item(<<"g">>, FileEntry(2, 3)),
                Item(<<"m">>, PyDict(<<Item(<<"s", "i", "z", "e">>, PyInt(1))>>))>>)
Content1 == Enc(<<"h", "i", "x">>)

\* A (1 byte at 1).
Tree2 == Directory(<<Item(<<"A">>, FileEntry(1, 1))>>)
Content2 == Enc(<<"y", "z">>)

\* p/q/c (1 byte at 0), p/m (no offset), p/b (1 byte at 1), a (2 bytes at 0),
\* r/e (1 byte at 2): two directories at the root, the first with a directory
\* of its own, and an entry without offset between entries that have one.
Tree3 ==
    Directory(<<Item(<<"p">>,
                     Directory(<<Item(<<"q">>, Directory(<<Item(<<"c">>, FileEntry(0, 1))>>)),
                                 Item(<<"m">>, PyDict(<<Item(<<"s", "i", "z", "e">>, PyInt(1))>>)),
                                 Item(<<"b">>, FileEntry(1, 1))>>)),
                Item(<<"a">>, FileEntry(0, 2)),
                Item(<<"r">>, Directory(<<Item(<<"e">>, FileEntry(2, 1))>>))>>)
Content3 == Enc(<<"h", "i", "x">>)

\* An archive file: the two length fields, the 8 bytes open() skips, the
\* payload with its padding, the content.
Archive(len_size, len_header, payload, content) ==
    pack_I(len_size) \o pack_I(len_header) \o Rep(<<Ord("x")>>, 8) \o payload \o content

Padded(payload, n) == payload \o Rep(<<NUL>>, n)
WellFormed(payload, content) ==
    Archive(LEN_SIZE, Len(payload) + PADDING, payload, content)

Disk ==
    [name \in {"one", "two", "three", "len5", "short", "cut", "trunc", "xff", "num"} |->
        CASE name = "one" -> WellFormed(Padded(json_dumps(Tree1), 1), Content1)
          [] name = "two" -> WellFormed(json_dumps(Tree2), Content2)
          [] name = "three" -> WellFormed(json_dumps(Tree3), Content3)
          \* len_size is 5
          [] name = "len5" ->
                Archive(LEN_SIZE + 1, Len(json_dumps(Tree2)) + PADDING,
                        json_dumps(Tree2), Content2)
          \* five bytes in all
          [] name = "short" -> Upto(WellFormed(json_dumps(Tree2), Content2), 5)
          \* the payload is the document's first 9 characters
          [] name = "cut" -> WellFormed(Upto(json_dumps(Tree2), 9), Content2)
          \* the file ends with the document, 3 bytes before the payload's
          \* declared end
          [] name = "trunc" ->
                Archive(LEN_SIZE, Len(json_dumps(Tree2)) + PADDING + 3,
                        json_dumps(Tree2), <<>>)
          \* the payload is not utf-8
          [] name = "xff" -> WellFormed(<<255>>, Content2)
          \* the payload is the JSON number 7
          [] name = "num" -> WellFormed(json_dumps(PyInt(7)), Content2)]

\* read_header of every file on disk, computed once.
HeaderOf == [name \in DOMAIN Disk |-> read_header(Disk[name])]

\* The names open() is called with; "none" is no file on disk.
FileInputs == DOMAIN Disk \cup {"none"}

(***************************************************************************)
(* os.path.split (posixpath) and the lookups of get_header.                *)
(***************************************************************************)
\* p.rfind("/") + 1
rfind_sep(p) ==
    LET at == {i \in 1..Len(p) : p[i] = SLASH}
    IN  IF at = {} THEN 0 ELSE CHOOSE i \in at : \A j \in at : j <= i

RECURSIVE rstrip_sep(_)
rstrip_sep(p) ==
    IF p # <<>> /\ p[Len(p)] = SLASH THEN rstrip_sep(SubSeq(p, 1, Len(p) - 1)) ELSE p

\* os.path.split(p) = <<head, tail>>: the tail is what follows the last
\* separator; the head loses its trailing separators unless it is nothing else.
path_split(p) ==
    LET i == rfind_sep(p)
        head == SubSeq(p, 1, i)
        tail == From(p, i)
    IN  <<IF head # <<>> /\ head # Rep(<<SLASH>>, Len(head)) THEN rstrip_sep(head) ELSE head,
          tail>>

Reverse(s) == [i \in 1..Len(s) |-> s[Len(s) + 1 - i]]

\* v[k]
subscript(v, k) ==
    IF ~IsDict(v) THEN Raise("TypeError")
    ELSE IF DictHas(v, k) THEN Ok(DictGet(v, k))
    ELSE Raise("KeyError")

\* v.get(k, default)
dict_get(v, k, default) ==
    IF ~IsDict(v) THEN Raise("AttributeError")
    ELSE Ok(IF DictHas(v, k) THEN DictGet(v, k) ELSE default)

\* get_header with an empty path (line 225).
get_header_root(hdrs, keep_files) ==
    IF keep_files THEN Ok(hdrs) ELSE subscript(hdrs, KEY_FILES)

\* for key in keys[:-1]: parent = parent[key]["files"], from the i-th key on.
RECURSIVE descend(_, _, _)
descend(parent, ks, i) ==
    IF i > Len(ks) - 1 THEN Ok(parent)
    ELSE LET child == subscript(parent, ks[i])
             files == subscript(child.value, KEY_FILES)
         IN  IF ~IsOk(child) THEN child
             ELSE IF ~IsOk(files) THEN files
             ELSE descend(files.value, ks, i + 1)

\* get_header once the split loop has ended (lines 231..238); keys is the
\* list the loop built, last segment first.
get_header_lookup(hdrs, keys_, keep_files) ==
    LET ks == Reverse(keys_)
        top == subscript(hdrs, KEY_FILES)
        parent == descend(top.value, ks, 1)
        item == subscript(parent.value, ks[Len(ks)])
    IN  IF ~IsOk(top) THEN top
        ELSE IF ~IsOk(parent) THEN parent
        ELSE IF ~IsOk(item) THEN item
        ELSE IF keep_files THEN item
        ELSE dict_get(item.value, KEY_FILES, item.value)

\* The split loop (lines 228..230) run for at most fuel iterations.  Each
\* iteration that shortens root leaves fewer than Len(path) to go, so a loop
\* that has not ended after Len(path) + 1 iterations never ends.
RECURSIVE split_loop(_, _, _)
split_loop(root_, keys_, fuel) ==
    IF root_ = <<>> \/ fuel = 0 THEN [root |-> root_, keys |-> keys_]
    ELSE split_loop(path_split(root_)[1], Append(keys_, path_split(root_)[2]), fuel - 1)

\* get_header(path, keep_files) as a whole (lines 224..238): what it returns
\* or raises, or "no return" when its loop never ends.
get_header(hdrs, path, keep_files) ==
    IF path = <<>> THEN get_header_root(hdrs, keep_files)
    ELSE LET l == split_loop(path_split(path)[1], <<path_split(path)[2]>>, Len(path) + 1)
         IN  IF l.root # <<>> THEN Raise("no return")
             ELSE get_header_lookup(hdrs, l.keys, keep_files)

(***************************************************************************)
(* seek, tell, read and the bodies of listdir, read_file and treestr, each *)
(* as the outcome and the cursor it leaves: [res, pos].                    *)
(***************************************************************************)
\* The host's file system below the directory a call writes to: the
\* directories made and the files written, in order.
NoHost == [dirs |-> {}, files |-> <<>>]
Step(res, p) == [res |-> res, pos |-> p, host |-> NoHost]

\* asar_seek with the content offset forgotten: it seeks to the absolute target.
asar_seek_absolute(has_fh, co, p, target) ==
    IF ~has_fh THEN Step(Raise("AttributeError"), p)
    ELSE LET sk == file_seek(target)
         IN  IF IsOk(sk) THEN Step(Ok(PyNone), target) ELSE Step(sk, p)

\* AsarFile.seek: self._fh.seek(self._content_offset + int(pos)).
asar_seek(has_fh, co, p, target) ==
    IF ~has_fh THEN Step(Raise("AttributeError"), p)
    ELSE LET sk == file_seek(co + target)
         IN  IF IsOk(sk) THEN Step(Ok(PyNone), co + target) ELSE Step(sk, p)

\* AsarFile.tell
asar_tell(has_fh, co, p) ==
    IF ~has_fh THEN Raise("AttributeError") ELSE Ok(PyInt(p - co))

\* AsarFile.read: the bytes, decoded when asked.
asar_read(has_fh, data, p, n, dec) ==
    IF ~has_fh THEN Step(Raise("AttributeError"), p)
    ELSE LET rd == file_read(data, p, n)
             after == p + Len(rd.value.b)
         IN  IF ~IsOk(rd) THEN Step(rd, p)
             ELSE IF dec THEN Step(decode(rd.value.b), after)
             ELSE Step(rd, after)

\* int(v)
to_int(v) == IF v.t = "int" THEN Ok(v) ELSE Raise("TypeError")

\* header[k] inside read_file's try: a KeyError becomes AsarFileHeaderError.
header_field(header, k) ==
    LET f == subscript(header, k)
    IN  IF f.status = "KeyError" THEN Raise("AsarFileHeaderError")
        ELSE IF ~IsOk(f) THEN f
        ELSE to_int(f.value)

\* read_file after get_header returned header (lines 356..362).
read_file_body(header, has_fh, data, co, p, dec) ==
    LET offset == header_field(header, KEY_OFFSET)
        size == header_field(header, KEY_SIZE)
        sk == asar_seek(has_fh, co, p, offset.value.n)
    IN  IF ~IsOk(offset) THEN Step(offset, p)
        ELSE IF ~IsOk(size) THEN Step(size, p)
        ELSE IF ~IsOk(sk.res) THEN sk
        ELSE asar_read(has_fh, data, sk.pos, size.value.n, dec)

\* listdir after get_header returned parent: list(parent.keys()).
listdir_body(parent) ==
    IF IsDict(parent) THEN Ok(PyList(DictKeys(parent))) ELSE Raise("AttributeError")

\* treestr's default indent.
DEFAULT_INDENT == 3

\* _treestr; depth -1 is None.  The text of item's line and, down to depth,
\* of the lines of what item["files"] holds.
RECURSIVE treestr_rec(_, _, _, _, _), treestr_children(_, _, _, _, _, _)
treestr_rec(lvl, name, item, indent, depth) ==
    LET vline == <<Ord("vline")>> \o Rep(<<Ord(" ")>>, Max(indent - 1, 1))
        hline == <<Ord("hline")>> \o Rep(<<Ord("dash")>>, Max(indent - 2, 0)) \o <<Ord(" ")>>
        line == IF lvl = 0 THEN name \o <<Ord("\n")>>
                ELSE Rep(vline, lvl - 1) \o hline \o name \o <<Ord("\n")>>
    IN  IF depth = -1 \/ lvl < depth
        THEN IF ~IsDict(item) THEN Raise("TypeError")
             ELSE IF ~DictHas(item, KEY_FILES) THEN Ok(PyStr(line))
             ELSE IF ~IsDict(DictGet(item, KEY_FILES)) THEN Raise("AttributeError")
             ELSE treestr_children(lvl, DictGet(item, KEY_FILES).items, 1, indent, depth, line)
        ELSE Ok(PyStr(line))

treestr_children(lvl, items, i, indent, depth, acc) ==
    IF i > Len(items) THEN Ok(PyStr(acc))
    ELSE LET sub == treestr_rec(lvl + 1, items[i].k, items[i].v, indent, depth)
         IN  IF ~IsOk(sub) THEN sub
             ELSE treestr_children(lvl, items, i + 1, indent, depth, acc \o sub.value.s)

\* treestr after get_header(root, keep_files=True) returned item.
treestr_body(root_, item, indent, depth) ==
    treestr_rec(0, IF root_ # <<>> THEN root_ ELSE CLASS_NAME, item, indent, depth)

(***************************************************************************)
(* walk.  A generator: the model takes the triples in the order the code   *)
(* yields them, and the exception that ends the iteration early, if any.   *)
(***************************************************************************)
\* os.path.join(a, b)
path_join(a, b) ==
    IF b # <<>> /\ b[1] = SLASH THEN b
    ELSE IF a = <<>> \/ a[Len(a)] = SLASH THEN a \o b
    ELSE a \o <<SLASH>> \o b

\* "files" in content
contains_files(content) ==
    IF IsDict(content) THEN Ok(DictHas(content, KEY_FILES)) ELSE Raise("TypeError")

\* What walk yields for one directory: (root, dirs, files).
Triple(root_, dirs, files) == [t |-> "tuple", root |-> root_, dirs |-> dirs, files |-> files]
\* An entry of parents: (path, parent).
Parent(path, parent) == [path |-> path, parent |-> parent]

\* for name, content in parent.items(), from the i-th item on (lines 273..278):
\* the lists dirs and files, and what was appended to new_parents.
RECURSIVE walk_items(_, _, _, _, _, _)
walk_items(root_, items, i, dirs, files, added) ==
    IF i > Len(items) THEN [status |-> "ok", dirs |-> dirs, files |-> files, added |-> added]
    ELSE LET name == items[i].k
             content == items[i].v
             isdir == contains_files(content)
         IN  IF ~IsOk(isdir) THEN [status |-> isdir.status, dirs |-> dirs, files |-> files,
                                   added |-> added]
             ELSE IF isdir.value
             THEN walk_items(root_, items, i + 1, Append(dirs, name), files,
                             Append(added, Parent(path_join(root_, name),
                                                  DictGet(content, KEY_FILES))))
             ELSE walk_items(root_, items, i + 1, dirs, Append(files, name), added)

\* for root, parent in parents, from the i-th on (lines 271..279): what has
\* been yielded, and new_parents.
RECURSIVE walk_level(_, _, _, _)
walk_level(parents, i, new_parents, yielded) ==
    IF i > Len(parents) THEN [status |-> "ok", new_parents |-> new_parents, yielded |-> yielded]
    ELSE IF ~IsDict(parents[i].parent)
    THEN [status |-> "AttributeError", new_parents |-> new_parents, yielded |-> yielded]
    ELSE With(walk_items(parents[i].path, parents[i].parent.items, 1, <<>>, <<>>, <<>>),
              LAMBDA e :
                IF e.status # "ok"
                THEN [status |-> e.status, new_parents |-> new_parents, yielded |-> yielded]
                ELSE walk_level(parents, i + 1, new_parents \o e.added,
                                Append(yielded, Triple(parents[i].path, e.dirs, e.files))))

\* while parents (lines 269..280).
RECURSIVE walk_loop(_, _)
walk_loop(parents, yielded) ==
    IF parents = <<>> THEN [status |-> "ok", yielded |-> yielded]
    ELSE With(walk_level(parents, 1, <<>>, yielded),
              LAMBDA l :
                IF l.status # "ok" THEN [status |-> l.status, yielded |-> l.yielded]
                ELSE walk_loop(l.new_parents, l.yielded))

\* walk that descends into each directory as soon as it has yielded it.
RECURSIVE walk_run_depth_first(_, _)
walk_run_depth_first(root_path, root_item) ==
    LET e == walk_items(root_path, root_item.items, 1, <<>>, <<>>, <<>>)
        below[i \in 0..Len(e.added)] ==
            IF i = 0 THEN [status |-> "ok", yielded |-> <<Triple(root_path, e.dirs, e.files)>>]
            ELSE LET sub == walk_run_depth_first(e.added[i].path, e.added[i].parent)
                 IN  IF below[i - 1].status # "ok" THEN below[i - 1]
                     ELSE [status |-> sub.status,
                           yielded |-> below[i - 1].yielded \o sub.yielded]
    IN  IF ~IsDict(root_item) THEN [status |-> "AttributeError", yielded |-> <<>>]
        ELSE IF e.status # "ok" THEN [status |-> e.status, yielded |-> <<>>]
        ELSE below[Len(e.added)]

\* walk after get_header returned root_item (lines 268..280): the triples it
\* yields, in order, and how the iteration ends.
walk_run(root_path, root_item) == walk_loop(<<Parent(root_path, root_item)>>, <<>>)

\* list(walk(root_path)) after get_header returned root_item.
walk_body(root_path, root_item) ==
    With(walk_run(root_path, root_item),
         LAMBDA w : IF w.status = "ok" THEN Ok(PyList(w.yielded)) ELSE Raise(w.status))

(***************************************************************************)
(* walk_files, extract_file and extract.  The destination is a directory   *)
(* that does not exist when the call starts.                               *)
(***************************************************************************)
\* walk_files after get_header returned root_item: (root, files) of every
\* triple of walk.
walk_files_run(root_path, root_item) ==
    With(walk_run(root_path, root_item),
         LAMBDA w :
           [status |-> w.status,
            yielded |-> [i \in 1..Len(w.yielded) |->
                            [root |-> w.yielded[i].root, files |-> w.yielded[i].files]]])

\* read_file(path, decode) as a whole (lines 355..362).
read_file(hdrs, has_fh, data, co, p, path, dec) ==
    With(get_header(hdrs, path, FALSE),
         LAMBDA header :
           IF ~IsOk(header) THEN Step(header, p)
           ELSE read_file_body(header.value, has_fh, data, co, p, dec))

\* The directories os.makedirs(d) leaves in place: d and what it lies in.
RECURSIVE made_dirs(_)
made_dirs(d) ==
    LET dir == IF d = Rep(<<SLASH>>, Len(d)) THEN d ELSE rstrip_sep(d)
        up == path_split(dir)[1]
    IN  IF dir = <<>> THEN {}
        ELSE IF up = dir THEN {dir}
        ELSE {dir} \cup made_dirs(up)

\* os.path.exists(d) for a directory d
host_exists(host, d) ==
    (IF d = Rep(<<SLASH>>, Len(d)) THEN d ELSE rstrip_sep(d)) \in host.dirs

\* extract_file(path, dst) (lines 385..391) with the cursor at p: what it
\* returns or raises, the cursor, the host's files.
extract_file(hdrs, has_fh, data, co, p, host, path, dst) ==
    With(read_file(hdrs, has_fh, data, co, p, path, FALSE),
         LAMBDA rd :
           IF ~IsOk(rd.res) THEN [res |-> rd.res, pos |-> rd.pos, host |-> host]
           ELSE With(path_join(dst, path_split(path)[2]),
                     LAMBDA dst_path :
                       [res |-> Ok(PyStr(dst_path)),
                        pos |-> rd.pos,
                        host |-> [dirs |-> IF host_exists(host, dst) THEN host.dirs
                                           ELSE host.dirs \cup made_dirs(dst),
                                  files |-> Append(host.files,
                                                   [path |-> dst_path,
                                                    data |-> rd.res.value.b])]]))

\* An extract that lets every exception of extract_file through.
catches_nothing(status) == FALSE

\* except AsarFileHeaderError (line 427)
catches(status) == status = "AsarFileHeaderError"

\* The exception object extract appends to errors.
Error(status, path) == [t |-> status, path |-> path]

\* for name in files, from the i-th on (lines 425..429); st is the outcome so
\* far: status, cursor, errors, host.
RECURSIVE extract_names(_, _, _, _, _, _, _, _, _)
extract_names(hdrs, has_fh, data, co, root_, dst_dir, files, i, st) ==
    IF i > Len(files) THEN st
    ELSE LET path == path_join(root_, files[i])
         IN  With(extract_file(hdrs, has_fh, data, co, st.pos, st.host, path, dst_dir),
                  LAMBDA x :
                    IF IsOk(x.res)
                    THEN With([st EXCEPT !.pos = x.pos, !.host = x.host],
                              LAMBDA next :
                                extract_names(hdrs, has_fh, data, co, root_, dst_dir, files,
                                              i + 1, next))
                    ELSE IF catches(x.res.status)
                    THEN With([st EXCEPT !.errors = Append(@, Error(x.res.status, path))],
                              LAMBDA next :
                                extract_names(hdrs, has_fh, data, co, root_, dst_dir, files,
                                              i + 1, next))
                    ELSE [st EXCEPT !.status = x.res.status])

\* for _root, files in self.walk_files(root), from the i-th pair on (lines
\* 423..429).
RECURSIVE extract_dirs(_, _, _, _, _, _, _, _)
extract_dirs(hdrs, has_fh, data, co, dst, pairs, i, st) ==
    IF i > Len(pairs) \/ st.status # "ok" THEN st
    ELSE With(extract_names(hdrs, has_fh, data, co, pairs[i].root,
                            path_join(dst, pairs[i].root), pairs[i].files, 1, st),
              LAMBDA next : extract_dirs(hdrs, has_fh, data, co, dst, pairs, i + 1, next))

\* extract(root, dst) after walk's get_header returned root_item (lines
\* 422..430): the list of errors or the exception that ended it, the cursor,
\* the host's files.  An exception of walk arrives after the pairs it yielded.
extract_body(root_, root_item, hdrs, has_fh, data, co, p, dst) ==
    With(walk_files_run(root_, root_item),
         LAMBDA w :
           With(extract_dirs(hdrs, has_fh, data, co, dst, w.yielded, 1,
                             [status |-> "ok", pos |-> p, errors |-> <<>>, host |-> NoHost]),
                LAMBDA st :
                  [res |-> IF st.status # "ok" THEN Raise(st.status)
                           ELSE IF w.status # "ok" THEN Raise(w.status)
                           ELSE Ok(PyList(st.errors)),
                   pos |-> st.pos,
                   host |-> st.host]))

(***************************************************************************)
(* The handle and its caller.                                              *)
(***************************************************************************)
VARIABLES
    fh,              \* _fh: 0 for None, else the index in sources of its file object
    fname,           \* the name of the file _fh reads ("" for None)
    pos,             \* the cursor of the file object _fh refers to
    sources,         \* for every byte source open() acquired, how often it was closed
    content_offset,  \* _content_offset
    headers,         \* headers
    decoded,         \* whether headers and _content_offset were read from _fh's file
    pc,              \* "idle", or "split" inside get_header's split loop
    call,            \* the call in progress
    root,            \* get_header's local root
    keys,            \* get_header's local keys
    result           \* how the last call ended

vars == <<fh, fname, sources, pos, content_offset, headers, decoded, pc, call, root, keys, result>>
handle == <<fh, fname, sources, pos, content_offset, headers, decoded>>
locals == <<pc, call, root, keys>>

\* The arguments of a call; each operation sets the ones it has.
NoArgs == [path |-> <<>>, keep_files |-> FALSE, dec |-> FALSE, n |-> 0,
           file |-> "", mode |-> "", depth |-> -1]
NoCall == [op |-> "none", args |-> NoArgs]
NoResult == [op |-> "none", args |-> NoArgs, was_closed |-> TRUE, was_open |-> FALSE,
             pos0 |-> 0, src |-> 0, status |-> "none", value |-> PyNone, host |-> NoHost]

\* The record of a call that ended with res; src is the byte source it acquired.
Ended(op, args, res, src) ==
    [op |-> op, args |-> args, was_closed |-> fh = 0, was_open |-> fh # 0 /\ decoded,
     pos0 |-> pos, src |-> src, status |-> res.status, value |-> res.value,
     host |-> NoHost]

HasFh == fh # 0
\* The bytes of the file _fh reads.
Data == IF fh = 0 THEN <<>> ELSE Disk[fname]

\* AsarFile() with no file (lines 77..84).
Init ==
    /\ fh = 0
    /\ fname = ""
    /\ sources = <<>>
    /\ pos = 0
    /\ content_offset = 0
    /\ headers = EmptyDict
    /\ decoded = FALSE
    /\ pc = "idle"
    /\ call = NoCall
    /\ root = <<>>
    /\ keys = <<>>
    /\ result = NoResult

\* mode.rstrip("b")
rstrip_b(mode) == CASE mode = "rb" -> "r" [] mode = "wb" -> "w" [] OTHER -> mode

ModeInputs == {"r", "rb", "w"}

\* AsarFile.open(file, mode) (lines 102..131).
Open(file, mode) ==
    LET args == [NoArgs EXCEPT !.file = file, !.mode = mode]
        h == HeaderOf[file]
        new == Len(sources) + 1
    IN  /\ pc = "idle"
        /\ UNCHANGED locals
        /\ IF rstrip_b(mode) = "w"
           THEN /\ result' = Ended("open", args, Raise("NotImplementedError"), 0)
                /\ UNCHANGED handle
           ELSE IF file \notin DOMAIN Disk
           THEN /\ result' = Ended("open", args, Raise("FileNotFoundError"), 0)
                /\ UNCHANGED handle
           ELSE /\ Len(sources) < MaxOpens
                /\ sources' = Append(sources, 0)
                /\ fh' = new
                /\ fname' = file
                /\ pos' = h.pos
                /\ decoded' = (h.status = "ok")
                /\ headers' = IF h.status = "ok" THEN h.headers ELSE headers
                /\ content_offset' = IF h.status = "ok" THEN h.content_offset
                                     ELSE content_offset
                /\ result' = Ended("open", args, [status |-> h.status, value |-> PyNone], new)

\* AsarFile.close() (lines 135..139); __exit__ and __del__ are this call.
Close ==
    /\ pc = "idle"
    /\ UNCHANGED locals
    /\ IF fh # 0
       THEN /\ sources' = [sources EXCEPT ![fh] = @ + 1]
            /\ fh' = 0
            /\ fname' = ""
            /\ pos' = 0
            /\ content_offset' = 0
            /\ decoded' = FALSE
            /\ headers' = IF IsDict(headers) THEN EmptyDict ELSE headers
            /\ result' = Ended("close", NoArgs,
                               IF IsDict(headers) THEN Ok(PyNone) ELSE Raise("AttributeError"), 0)
       ELSE /\ UNCHANGED handle
            /\ result' = Ended("close", NoArgs, Ok(PyNone), 0)

SeekInputs == {0, -200}

\* AsarFile.seek(pos) (line 161).
Seek(target) ==
    LET s == asar_seek(HasFh, content_offset, pos, target)
    IN  /\ pc = "idle"
        /\ pos' = s.pos
        /\ result' = Ended("seek", [NoArgs EXCEPT !.n = target], s.res, 0)
        /\ UNCHANGED <<fh, fname, sources, content_offset, headers, decoded, locals>>

\* AsarFile.tell() (line 173).
Tell ==
    /\ pc = "idle"
    /\ result' = Ended("tell", NoArgs, asar_tell(HasFh, content_offset, pos), 0)
    /\ UNCHANGED <<handle, locals>>

\* n = -1 is read()'s default None.
ReadInputs == {-1, 1}

\* AsarFile.read(n, decode) (lines 195..198).
Read(n, dec) ==
    LET r == asar_read(HasFh, Data, pos, n, dec)
    IN  /\ pc = "idle"
        /\ pos' = r.pos
        /\ result' = Ended("read", [NoArgs EXCEPT !.n = n, !.dec = dec], r.res, 0)
        /\ UNCHANGED <<fh, fname, sources, content_offset, headers, decoded, locals>>

(***************************************************************************)
(* The operations that resolve a path.  get_header with an empty path      *)
(* returns at once; otherwise it enters its split loop, which the model    *)
(* follows one iteration at a time, and the operation ends when the loop   *)
(* does.                                                                   *)
(***************************************************************************)
PathInputs ==
    {Enc(p) : p \in {<<>>, <<"a">>, <<"d">>, <<"d", "/", "b">>, <<"g">>, <<"m">>,
                     <<"a", "/", "x">>, <<"A">>, <<"d", "/">>, <<"/", "a">>,
                     <<"d", "/", "/", "b">>}}
ListdirInputs == {Enc(p) : p \in {<<>>, <<"d">>, <<"a">>, <<"d", "/">>}}
ReadFileInputs ==
    {Enc(p) : p \in {<<"a">>, <<"d", "/", "b">>, <<"g">>, <<"m">>, <<"d">>, <<"A">>,
                     <<"d", "/", "/", "b">>}}
TreestrInputs == {Enc(p) : p \in {<<>>, <<"d">>, <<"/", "a">>}}
WalkInputs == {Enc(p) : p \in {<<>>, <<"p">>, <<"a">>, <<"p", "/", "/", "q">>}}
ExtractInputs == {Enc(p) : p \in {<<>>, <<"p">>, <<"r">>, <<"a">>}}
\* The directory extract writes to.
DST == Enc(<<"o", "u", "t">>)
DepthInputs == {-1, 1}

\* The keep_files each operation passes to get_header.
keep_files_of(c) ==
    CASE c.op = "get_header" -> c.args.keep_files
      [] c.op = "treestr" -> TRUE
      [] OTHER -> FALSE

\* What operation c does with what get_header returned (or raised): [res, pos].
finish(c, g) ==
    IF ~IsOk(g) THEN Step(g, pos)
    ELSE CASE c.op = "get_header" -> Step(g, pos)
           [] c.op = "listdir" -> Step(listdir_body(g.value), pos)
           [] c.op = "read_file" ->
                read_file_body(g.value, HasFh, Data, content_offset, pos, c.args.dec)
           [] c.op = "treestr" ->
                Step(treestr_body(c.args.path, g.value, DEFAULT_INDENT, c.args.depth), pos)
           [] c.op = "walk" -> Step(walk_body(c.args.path, g.value), pos)
           [] c.op = "extract" ->
                extract_body(c.args.path, g.value, headers, HasFh, Data, content_offset,
                             pos, DST)

\* The call c starts: get_header's lines 224..227.
Begin(c) ==
    /\ pc = "idle"
    /\ UNCHANGED <<fh, fname, sources, content_offset, headers, decoded>>
    /\ IF c.args.path = <<>>
       THEN \E f \in {finish(c, get_header_root(headers, keep_files_of(c)))} :
                /\ pos' = f.pos
                /\ result' = [Ended(c.op, c.args, f.res, 0) EXCEPT !.host = f.host]
                /\ UNCHANGED locals
       ELSE /\ pc' = "split"
            /\ call' = c
            /\ root' = path_split(c.args.path)[1]
            /\ keys' = <<path_split(c.args.path)[2]>>
            /\ result' = NoResult
            /\ pos' = pos

GetHeader(path, keep_files) ==
    Begin([op |-> "get_header",
           args |-> [NoArgs EXCEPT !.path = path, !.keep_files = keep_files]])

Listdir(path) == Begin([op |-> "listdir", args |-> [NoArgs EXCEPT !.path = path]])

ReadFile(path, dec) ==
    Begin([op |-> "read_file", args |-> [NoArgs EXCEPT !.path = path, !.dec = dec]])

Treestr(path, depth) ==
    Begin([op |-> "treestr", args |-> [NoArgs EXCEPT !.path = path, !.depth = depth]])

\* list(walk(root_path)): the generator run to its end.
Walk(path) == Begin([op |-> "walk", args |-> [NoArgs EXCEPT !.path = path]])

\* extract(root, dst) into a directory that does not exist yet.
Extract(path) == Begin([op |-> "extract", args |-> [NoArgs EXCEPT !.path = path]])

\* One iteration of `while root:` (lines 228..230).
SplitLoop ==
    /\ pc = "split"
    /\ root # <<>>
    /\ Len(keys) < MaxKeys
    /\ root' = path_split(root)[1]
    /\ keys' = Append(keys, path_split(root)[2])
    /\ UNCHANGED <<handle, pc, call, result>>

\* The loop has ended: the lookups of lines 231..238, then the rest of the
\* operation that called get_header.
Return ==
    /\ pc = "split"
    /\ root = <<>>
    /\ \E f \in {finish(call, get_header_lookup(headers, keys, keep_files_of(call)))} :
           /\ pos' = f.pos
           /\ result' = [Ended(call.op, call.args, f.res, 0) EXCEPT !.host = f.host]
    /\ pc' = "idle"
    /\ call' = NoCall
    /\ keys' = <<>>
    /\ UNCHANGED <<fh, fname, sources, content_offset, headers, decoded, root>>

Next ==
    \/ \E file \in FileInputs, mode \in ModeInputs : Open(file, mode)
    \/ Close
    \/ \E target \in SeekInputs : Seek(target)
    \/ Tell
    \/ \E n \in ReadInputs, dec \in BOOLEAN : Read(n, dec)
    \/ \E path \in PathInputs, keep_files \in BOOLEAN : GetHeader(path, keep_files)
    \/ \E path \in ListdirInputs : Listdir(path)
    \/ \E path \in ReadFileInputs, dec \in BOOLEAN : ReadFile(path, dec)
    \/ \E path \in TreestrInputs, depth \in DepthInputs : Treestr(path, depth)
    \/ \E path \in WalkInputs : Walk(path)
    \/ \E path \in ExtractInputs : Extract(path)
    \/ SplitLoop
    \/ Return

Spec == Init /\ [][Next]_vars

(***************************************************************************)
(* The claims.                                                             *)
(***************************************************************************)
\* The operations that need an open handle.
NeedOpen == {"seek", "tell", "read", "get_header", "listdir", "read_file", "treestr"}

\* A node that is a file entry: a dict with no "files", with offset and size.
IsFileEntry(v) ==
    /\ IsDict(v)
    /\ ~DictHas(v, KEY_FILES)
    /\ DictHas(v, KEY_OFFSET) /\ DictGet(v, KEY_OFFSET).t = "int"
    /\ DictHas(v, KEY_SIZE) /\ DictGet(v, KEY_SIZE).t = "int"

\* Where the content region of an archive starts, from its two length fields.
ContentStart(data) ==
    (HEADER_BASE + unpack_I(SubSeq(data, 1, 4))) + (unpack_I(SubSeq(data, 5, 8)) - PADDING)

\* The node the last call's path names in the loaded header.
Named == get_header(headers, result.args.path, TRUE)
NamedOffset == DictGet(Named.value, KEY_OFFSET).n
NamedSize == DictGet(Named.value, KEY_SIZE).n
NamesFileEntry == IsOk(Named) /\ IsFileEntry(Named.value)
\* The last call was made on an Open handle and named a file entry.
OnFileEntry(op) == result.op = op /\ result.was_open /\ NamesFileEntry

\* C1: on a Closed handle every call of seek, tell, read, get_header, listdir,
\* read_file and treestr fails with an error; none returns a result.
C1_ClosedCallsFail ==
    (result.op \in NeedOpen /\ result.was_closed) => result.status # "ok"

\* C2: once close() has returned, every byte source the handle acquired has
\* been released exactly once, also a source acquired before a second open().
C2_EverySourceReleased ==
    result.op = "close" => \A i \in DOMAIN sources : sources[i] = 1

\* C3: when open() fails after it acquired the byte source, the source has
\* been released and the handle is Closed, with no header and no content
\* offset, when open() returns.
C3_FailedOpenReleases ==
    (result.op = "open" /\ result.src # 0 /\ result.status # "ok")
        => /\ fh = 0
           /\ sources[result.src] = 1
           /\ headers = EmptyDict
           /\ content_offset = 0

\* C4: close() never raises, and after it the handle holds no byte source,
\* the content offset is 0 and the header is empty.
C4_CloseSucceeds ==
    result.op = "close"
        => /\ result.status = "ok"
           /\ fh = 0
           /\ content_offset = 0
           /\ headers = EmptyDict

\* C5: on an open archive, read_file(path, decode=False) of a file entry whose
\* range lies inside the content region returns exactly the bytes
\* content[offset .. offset + size), the content region starting at
\* (12 + len_size) + (len_header - 8), wherever the cursor was before.
C5_ReadFileBytes ==
    (OnFileEntry("read_file") /\ ~result.args.dec
        /\ ContentStart(Data) + NamedOffset + NamedSize <= Len(Data))
        => /\ result.status = "ok"
           /\ result.value = PyBytes(SubSeq(Data, ContentStart(Data) + NamedOffset + 1,
                                            ContentStart(Data) + NamedOffset + NamedSize))

\* C5's case: d/b of archive "one" was read, one byte, with the cursor
\* somewhere else before the call.
C5_Witness ==
    /\ OnFileEntry("read_file") /\ ~result.args.dec
    /\ fname = "one"
    /\ result.args.path = Enc(<<"d", "/", "b">>)
    /\ result.value = PyBytes(Enc(<<"x">>))
    /\ result.pos0 # ContentStart(Data) + NamedOffset

\* C6: read_file of a file entry whose offset + size exceeds the content
\* region fails, and read_file never returns fewer than size bytes.
C6_BoundValidated ==
    OnFileEntry("read_file") /\ ~result.args.dec
        => /\ ContentStart(Data) + NamedOffset + NamedSize > Len(Data)
                => result.status # "ok"
           /\ result.status = "ok" => Len(result.value.b) >= NamedSize

\* q is p with a leading "/" added, a trailing "/" added, or one "/" between
\* two segments doubled.
IsVariant(q, p) ==
    \/ q = <<SLASH>> \o p
    \/ q = p \o <<SLASH>>
    \/ \E i \in 2..(Len(p) - 1) :
          /\ p[i] = SLASH /\ p[i - 1] # SLASH /\ p[i + 1] # SLASH
          /\ q = SubSeq(p, 1, i) \o <<SLASH>> \o From(p, i)

\* C7: when get_header resolves p to a node, it resolves every variant of p
\* (leading, trailing or doubled "/") to the same node.
C7_SeparatorsIgnored ==
    result.op = "get_header"
        => \A p \in PathInputs :
              (IsVariant(result.args.path, p)
                  /\ IsOk(get_header(headers, p, result.args.keep_files)))
              => /\ result.status = "ok"
                 /\ result.value = get_header(headers, p, result.args.keep_files).value

\* The pieces of a path between its separators, empty ones counted.
Pieces(p) == Cardinality({i \in 1..Len(p) : p[i] = SLASH}) + 1

\* C8: on an open archive get_header ends after a number of loop iterations
\* bounded by the number of segments of the path: its list keys never holds
\* more entries than the path has pieces.
C8_SplitLoopBounded ==
    (pc = "split" /\ fh # 0 /\ decoded) => Len(keys) <= Pieces(call.args.path)

\* The non-empty pieces of a path, in order.
RECURSIVE Segments(_)
Segments(p) ==
    IF p = <<>> THEN <<>>
    ELSE LET i == rfind_sep(p)
             last == From(p, i)
             before == Segments(SubSeq(p, 1, Max(i - 1, 0)))
         IN  IF last = <<>> THEN before ELSE Append(before, last)

\* Whether the segments from the i-th on lead from directory dir (its
\* children) to a node: every segment names a child, every one but the last a
\* directory.
RECURSIVE Leads(_, _, _)
Leads(dir, segs, i) ==
    /\ IsDict(dir)
    /\ DictHas(dir, segs[i])
    /\ \/ i = Len(segs)
       \/ /\ IsDict(DictGet(dir, segs[i]))
          /\ DictHas(DictGet(dir, segs[i]), KEY_FILES)
          /\ Leads(DictGet(DictGet(dir, segs[i]), KEY_FILES), segs, i + 1)

\* The path has a segment that names no child, or an intermediate segment
\* that names a file entry.
Unresolvable(p) ==
    /\ IsDict(headers) /\ DictHas(headers, KEY_FILES)
    /\ Segments(p) # <<>>
    /\ ~Leads(DictGet(headers, KEY_FILES), Segments(p), 1)

\* C9: resolving a path with a segment that names no child, or with an
\* intermediate segment that names a file entry, fails with the lookup error
\* KeyError: the call ends, within the path's number of pieces, and ends so.
C9_UnresolvableRaisesKeyError ==
    /\ (result.op = "get_header" /\ result.was_open /\ Unresolvable(result.args.path))
          => result.status = "KeyError"
    /\ (pc = "split" /\ call.op = "get_header" /\ fh # 0 /\ decoded
            /\ Unresolvable(call.args.path))
          => Len(keys) <= Pieces(call.args.path)

\* C10: listdir of a path that names a file entry fails; it returns a list
\* only for a directory.
C10_ListdirOfFileFails == OnFileEntry("listdir") => result.status # "ok"

\* A node that is a directory, and one whose subtree holds nothing but
\* directories and entries that are dicts.
IsDirectory(v) == IsDict(v) /\ DictHas(v, KEY_FILES) /\ IsDict(DictGet(v, KEY_FILES))
RECURSIVE IsTree(_)
IsTree(v) ==
    /\ IsDict(v)
    /\ DictHas(v, KEY_FILES)
          => /\ IsDict(DictGet(v, KEY_FILES))
             /\ \A i \in 1..Len(DictGet(v, KEY_FILES).items) :
                    IsTree(DictGet(v, KEY_FILES).items[i].v)

\* The path of the child name of the directory at path.
Under(path, name) == IF path = <<>> THEN name ELSE path \o <<SLASH>> \o name

\* The directories at and below the directory dir found at path: for each its
\* path, its depth below the start, and the node.
RECURSIVE DirsBelow(_, _, _)
DirsBelow(path, dir, depth) ==
    LET items == DictGet(dir, KEY_FILES).items
    IN  {[path |-> path, depth |-> depth, dir |-> dir]}
        \cup UNION {DirsBelow(Under(path, items[i].k), items[i].v, depth + 1) :
                        i \in {j \in 1..Len(items) : IsDirectory(items[j].v)}}

\* The last call was walk, on an Open handle, of a path that names a directory
\* of a well-formed tree.
OnDirectory(op) ==
    /\ result.op = op /\ result.was_open
    /\ IsOk(Named) /\ IsDirectory(Named.value) /\ IsTree(Named.value)

\* The names of dir's children that are directories (or are not), in
\* insertion order.
ChildNames(dir, dirs) ==
    LET items == DictGet(dir, KEY_FILES).items
        at[i \in 0..Len(items)] ==
            IF i = 0 THEN <<>>
            ELSE IF IsDirectory(items[i].v) = dirs THEN Append(at[i - 1], items[i].k)
            ELSE at[i - 1]
    IN  at[Len(items)]

\* C11: walk(root_path) on a directory yields finitely many triples in
\* breadth-first level order: the first is root_path's; a directory at depth d
\* comes before every directory at depth d + 1; each directory below
\* root_path is yielded exactly once, after its parent; in each triple
\* dir_names and file_names are the directory's children that are
\* directories and those that are not, each in insertion order.
C11_WalkLevelOrder ==
    OnDirectory("walk")
        => /\ result.status = "ok"
           /\ LET w == result.value.l
                  S == DirsBelow(result.args.path, Named.value, 0)
                  At_(i) == CHOOSE d \in S : d.path = w[i].root
              IN  /\ Len(w) = Cardinality(S)
                  /\ w[1].root = result.args.path
                  /\ \A i \in 1..Len(w) : \E d \in S : d.path = w[i].root
                  /\ \A d \in S : Cardinality({i \in 1..Len(w) : w[i].root = d.path}) = 1
                  /\ \A i, j \in 1..Len(w) : i < j => At_(i).depth <= At_(j).depth
                  /\ \A i \in 2..Len(w) :
                        \E j \in 1..(i - 1) : \E k \in 1..Len(w[j].dirs) :
                            w[i].root = Under(w[j].root, w[j].dirs[k])
                  /\ \A i \in 1..Len(w) :
                        /\ w[i].dirs = ChildNames(At_(i).dir, TRUE)
                        /\ w[i].files = ChildNames(At_(i).dir, FALSE)

\* C11's case: the whole of archive "three" was walked; r, the second
\* directory of the root, came before p/q, the directory inside the first.
C11_Witness ==
    /\ OnDirectory("walk") /\ fname = "three" /\ result.args.path = <<>>
    /\ result.status = "ok"
    /\ Len(result.value.l) = 4
    /\ result.value.l[2] = Triple(Enc(<<"p">>), <<Enc(<<"q">>)>>, <<Enc(<<"m">>), Enc(<<"b">>)>>)
    /\ result.value.l[3].root = Enc(<<"r">>)
    /\ result.value.l[4].root = Enc(<<"p", "/", "q">>)

\* The entries at and below the directory dir found at path that are not
\* directories: for each the path of its directory, its name and the node.
FilesBelow(path, dir) ==
    UNION {{[dir |-> d.path, name |-> DictGet(d.dir, KEY_FILES).items[i].k,
             node |-> DictGet(d.dir, KEY_FILES).items[i].v] :
               i \in {j \in 1..Len(DictGet(d.dir, KEY_FILES).items) :
                         ~IsDirectory(DictGet(d.dir, KEY_FILES).items[j].v)}} :
           d \in DirsBelow(path, dir, 0)}

\* An entry that lacks offset or size.
Lacking(v) == ~DictHas(v, KEY_OFFSET) \/ ~DictHas(v, KEY_SIZE)
\* A file entry whose bytes the content region of data holds.
Held(v, data) ==
    /\ IsFileEntry(v)
    /\ ContentStart(data) + DictGet(v, KEY_OFFSET).n + DictGet(v, KEY_SIZE).n <= Len(data)
\* The bytes of such an entry.
BytesOf(v, data) ==
    SubSeq(data, ContentStart(data) + DictGet(v, KEY_OFFSET).n + 1,
           ContentStart(data) + DictGet(v, KEY_OFFSET).n + DictGet(v, KEY_SIZE).n)

\* The last call was extract, on an Open handle, of a directory under which
\* every entry either lacks offset or size or is a file entry with its bytes
\* in the content region, and at least one entry lacks offset or size.
OnPartlyBroken ==
    /\ OnDirectory("extract")
    /\ \A f \in FilesBelow(result.args.path, Named.value) :
          Lacking(f.node) \/ Held(f.node, Data)
    /\ \E f \in FilesBelow(result.args.path, Named.value) : Lacking(f.node)

\* C12: extract(root, dst) is best-effort.  When entries under root lack
\* offset or size, extract does not abort: it returns a list with one
\* AsarFileHeaderError per such entry, and every other file entry under root
\* is written once, to dst/<path of its directory>/<name>, with exactly its
\* bytes, before or after a failing entry in walk order alike.
C12_ExtractBestEffort ==
    OnPartlyBroken
        => LET F == FilesBelow(result.args.path, Named.value)
               errors == result.value.l
               written == result.host.files
           IN  /\ result.status = "ok"
               /\ Len(errors) = Cardinality({f \in F : Lacking(f.node)})
               /\ \A i \in 1..Len(errors) : errors[i].t = "AsarFileHeaderError"
               /\ \A f \in F :
                     Lacking(f.node)
                         => Cardinality({i \in 1..Len(errors) :
                                            errors[i].path = Under(f.dir, f.name)}) = 1
               /\ \A f \in F :
                     ~Lacking(f.node)
                         => /\ Cardinality({i \in 1..Len(written) :
                                   written[i].path = Under(DST, Under(f.dir, f.name))}) = 1
                            /\ \A i \in 1..Len(written) :
                                   written[i].path = Under(DST, Under(f.dir, f.name))
                                       => written[i].data = BytesOf(f.node, Data)

\* C12's case: the whole of archive "three" was extracted; p/m has no offset,
\* a was written before it was met, p/b after it in the same directory, and
\* p/q/c from a directory walked later.
C12_Witness ==
    /\ OnPartlyBroken /\ fname = "three" /\ result.args.path = <<>>
    /\ result.value = PyList(<<Error("AsarFileHeaderError", Enc(<<"p", "/", "m">>))>>)
    /\ Len(result.host.files) = 4
    /\ result.host.files[1] = [path |-> Enc(<<"o", "u", "t", "/", "a">>), data |-> Enc(<<"h", "i">>)]
    /\ result.host.files[2] = [path |-> Enc(<<"o", "u", "t", "/", "p", "/", "b">>), data |-> Enc(<<"i">>)]
    /\ result.host.files[4] =
          [path |-> Enc(<<"o", "u", "t", "/", "p", "/", "q", "/", "c">>), data |-> Enc(<<"h">>)]

\* How many bytes open() asks for when it reads the header payload.
PayloadLen(data) == unpack_I(SubSeq(data, 5, 8)) - PADDING
\* How many bytes that read can get: what the file holds after the header's start.
PayloadHeld(data) == Max(Len(data) - (HEADER_BASE + unpack_I(SubSeq(data, 1, 4))), 0)
\* A read of open() comes back short: the length prefix, or the header payload.
ShortRead(data) ==
    \/ Len(data) < PREFIX_LEN
    \/ PayloadLen(data) < 0
    \/ PayloadHeld(data) < PayloadLen(data)

\* C13: open() fails whenever the byte source is truncated: when fewer than 8
\* bytes are read for the length prefix or fewer than len_header - 8 bytes for
\* the header payload (also with len_header < 8), open() does not succeed,
\* even when the bytes it did read parse as a document.
C13_TruncatedOpenFails ==
    (result.op = "open" /\ result.src # 0 /\ ShortRead(Data)) => result.status # "ok"

====
